---------------------------- MODULE Spec2Model ----------------------------
(***************************************************************************)
(* A model of the crawl orchestration of crawlaio: the scope filter        *)
(* (utils.py), the sitemap store (SitemapGenerator.py), the discovery      *)
(* spider (ScrapyDiscovery.py), the run driver (main.py) and the parallel  *)
(* fetch scheduler (WebCrawler.py); and, each on its own, the chunker, the *)
(* enrichment and persistence of a page's chunks, the names of the chunk   *)
(* files (DocumentProcessor.py, ollama_client.py) and the loads of         *)
(* config.json at startup (ollama_config.py, ArgumentHandler.py).          *)
(*                                                                         *)
(* A URL is the record urlparse yields for it: its network location and    *)
(* its path, the path a sequence of one-character strings (every URL of    *)
(* the run has the scheme https and neither query nor fragment; the URLs   *)
(* of the chunk files have a query).                                       *)
(***************************************************************************)
EXTENDS Naturals, Integers, Sequences, FiniteSets, TLC

(***************************************************************************)
(* Bounds of the model.                                                    *)
(***************************************************************************)
MaxConcurrent == 2

MaxRetries == 1

\* the longest text handed to chunk_text
MaxTextLen == 5

\* the largest chunk_size handed to chunk_text
MaxChunkSize == 5

\* the most chunks of a document handed to process_and_store_document
MaxChunks == 2

\* the longest text of every character mix for which the loop of chunk_text is
\* followed to its end under fairness
MaxLoopTextLen == 3

\* the texts with several breaks are of at most this many pieces
MaxPieces == 5

\* the chunk sizes tried on the texts with several breaks
MaxBreakSize == 8

\* the chunk files written in a run of the store on its own
MaxSaves == 3

(***************************************************************************)
(* URLs.                                                                   *)
(***************************************************************************)
Url(n, p) == [netloc |-> n, path |-> p]

Netlocs == {"ex.com", "other.org"}

\* the code points of the characters used in paths: '/' < 'a' < 'b' < 'd' < 'x'
CharRank(c) ==
    CASE c = "/" -> 47
      [] c = "a" -> 97
      [] c = "b" -> 98
      [] c = "d" -> 100
      [] c = "x" -> 120

NetlocRank(n) == IF n = "ex.com" THEN 1 ELSE 2

\* str.startswith
StartsWith(s, p) == Len(p) <= Len(s) /\ SubSeq(s, 1, Len(p)) = p

\* utils.get_domain: urlparse(url).netloc
get_domain(url) == url.netloc

\* str.rstrip('/') on the characters of a path: every trailing slash goes
RECURSIVE RStripPath(_)
RStripPath(p) ==
    IF Len(p) > 0 /\ p[Len(p)] = "/" THEN RStripPath(SubSeq(p, 1, Len(p) - 1))
    ELSE p

\* url.rstrip('/'): the network location is not empty and ends with no slash,
\* so the strip ends where the path begins
RStrip(url) == Url(url.netloc, RStripPath(url.path))

\* utils.should_crawl_url
should_crawl_url(url, start) ==
    start.netloc = url.netloc /\ StartsWith(url.path, start.path)

\* Python's str ordering on two paths
RECURSIVE PathLess(_, _)
PathLess(p, q) ==
    IF Len(p) = 0 THEN Len(q) > 0
    ELSE IF Len(q) = 0 THEN FALSE
    ELSE IF p[1] # q[1] THEN CharRank(p[1]) < CharRank(q[1])
    ELSE PathLess(Tail(p), Tail(q))

\* Python's str ordering on two URL strings of the model
UrlLess(a, b) ==
    IF a.netloc # b.netloc THEN NetlocRank(a.netloc) < NetlocRank(b.netloc)
    ELSE PathLess(a.path, b.path)

\* sorted(urls)
RECURSIVE Sorted(_)
Sorted(S) ==
    IF S = {} THEN << >>
    ELSE LET m == CHOOSE x \in S : \A y \in S \ {x} : UrlLess(x, y)
         IN  <<m>> \o Sorted(S \ {m})

Range(s) == {s[i] : i \in 1..Len(s)}

\* the orders in which list(a_set) can hold the members of a set
Orderings(S) ==
    {s \in [1..Cardinality(S) -> S] : \A i, j \in 1..Cardinality(S) : s[i] = s[j] => i = j}

(***************************************************************************)
(* The web the run crawls: the pages, and for each page the links the two  *)
(* extraction strategies of the fetch phase see (the structured link list  *)
(* of the markdown result and the anchors of the cleaned markup).          *)
(***************************************************************************)
Docs == Url("ex.com", <<"/", "d">>)

DocsSlash == Url("ex.com", <<"/", "d", "/">>)

PageA == Url("ex.com", <<"/", "d", "/", "a">>)

PageB == Url("ex.com", <<"/", "d", "/", "b">>)

PageBSlash == Url("ex.com", <<"/", "d", "/", "b", "/">>)

PageH == Url("ex.com", <<"/", "d", "/", "h">>)

OutPage == Url("ex.com", <<"/", "x">>)

OutPageSlash == Url("ex.com", <<"/", "x", "/">>)

External == Url("other.org", <<"/", "d">>)

Universe ==
    {Docs, DocsSlash, PageA, PageB, PageBSlash, PageH, OutPage, OutPageSlash, External}

\* the pages of the web, each named by its URL without trailing slash
Pages == {Docs, PageA, PageB, PageH, OutPage, External}

\* the start URLs a run is given
StartUrls == {Docs, DocsSlash, OutPageSlash}

NoUrl == Url("", << >>)

\* result.markdown_v2.links of the page a URL serves, in document order
MdLinks(url) ==
    LET page == RStrip(url)
    IN  CASE page = Docs    -> <<PageA, OutPage, External>>
          [] page = PageA   -> <<PageB>>
          [] page = PageB   -> << >>
          [] page = OutPage -> <<PageH, PageB>>
          [] OTHER          -> << >>

\* the a[href] of result.cleaned_html of the page a URL serves, in document order
HtmlLinks(url) ==
    LET page == RStrip(url)
    IN  CASE page = Docs    -> <<PageA, PageBSlash>>
          [] page = PageA   -> <<Docs>>
          [] page = PageB   -> <<PageA>>
          [] page = OutPage -> <<Docs>>
          [] OTHER          -> << >>

\* response.css("a::attr(href)").getall() as a set: every href of the page
SpiderLinks(url) == Range(MdLinks(url)) \cup Range(HtmlLinks(url))

(***************************************************************************)
(* State.                                                                  *)
(***************************************************************************)
VARIABLES
    start_url,                \* args['url']
    max_concurrent,           \* args['max_concurrent']
    max_retries,              \* args['max_retries']
    main_pc,                  \* where MainApp.run / crawl_parallel stands
    spider_urls,              \* SitemapSpider.urls
    scheduled,                \* the requests the spider's engine still holds
    discovery_complete_event, \* ScrapyDiscovery.discovery_complete_event
    sitemap_urls,             \* SitemapGenerator.urls
    sitemap_file,             \* sitemap.xml: whether it exists, its <loc> entries
    discovered_urls,          \* what load_urls returned to MainApp.run
    crawler,                  \* the AsyncWebCrawler: "none", "started", "closed"
    urls_to_process,          \* the asyncio.Queue of crawl_parallel
    unfinished_tasks,         \* the queue's count of items not yet task_done
    processed_urls,           \* WebCrawler.processed_urls
    queued_urls,              \* WebCrawler.queued_urls
    semaphore,                \* the value of WebCrawler.semaphore
    pc,                       \* each worker task's position
    cur_url,                  \* the url of the worker's process_url call
    retry_count,              \* the retry_count of its innermost process_url
    held,                     \* the permits its process_url frames hold
    progress_total,           \* CrawlProgress: tqdm total
    progress_n,               \* CrawlProgress: tqdm count
    fetch_calls,              \* history: crawler.arun calls made, per url
    fetch_ok,                 \* history: successful arun results, per url
    put_count,                \* history: puts onto urls_to_process, per url
    dropped,                  \* history: urls whose process_url ended unfetched
    all_ok,                   \* history: no spider request and no arun has failed
    save_count,               \* history: save_sitemap calls made
    config_error,             \* history: validate_config raised
    link_loops_run,           \* history: urls whose link loops process_url ran
    extract_count,            \* history: the times parse extracted the links of a URL
    sc_url,                   \* the scope check: its url argument
    sc_start,                 \* the scope check: its start_url argument
    sc_result,                \* the scope check: "pending", "True" or "False"
    ck_text,                  \* chunk_text: its text argument
    ck_size,                  \* chunk_text: its chunk_size argument
    ck_start,                 \* chunk_text: start
    ck_chunks,                \* chunk_text: chunks
    ck_cuts,                  \* history: start, end and stripped slice of each iteration
    ck_pc,                    \* chunk_text: "none", "loop" or "returned"
    en_chunks,                \* process_and_store_document: len(chunks)
    en_pc,                    \* each process_chunk task's position
    en_summary,               \* what its summarize request came to
    en_failures,              \* the embed requests of the task that failed
    en_embed_calls,           \* history: the embed requests the task has made
    en_waits,                 \* history: the wait_time of each sleep of the task
    en_embedding,             \* process_chunk: embedding
    en_doc_pc,                \* where process_and_store_document and its caller stand
    en_save_attempts,         \* history: the tasks whose chunk save_chunk_to_file got
    en_files,                 \* the chunk records written to the output directory
    st_written,               \* history: the (url, chunk_number) pairs written
    st_files,                 \* the output directory: the chunk files by name
    cf_file,                  \* config.json
    cf_pc,                    \* where the startup of the program stands
    cf_ollama,                \* ollama_config.ollama_config
    cf_run                    \* the dictionary ArgumentHandler's load_config returned

config == <<start_url, max_concurrent, max_retries>>

disc == <<spider_urls, scheduled, discovery_complete_event>>

smap == <<sitemap_urls, sitemap_file>>

frontier == <<urls_to_process, unfinished_tasks, processed_urls, queued_urls>>

wk == <<pc, cur_url, retry_count, held, semaphore>>

prog == <<progress_total, progress_n>>

hist == <<fetch_calls, fetch_ok, put_count, dropped, all_ok, save_count, config_error,
         link_loops_run, extract_count>>

scopev == <<sc_url, sc_start, sc_result>>

chunkv == <<ck_text, ck_size, ck_start, ck_chunks, ck_cuts, ck_pc>>

enrichv == <<en_chunks, en_pc, en_summary, en_failures, en_embed_calls, en_waits,
            en_embedding, en_doc_pc, en_save_attempts, en_files>>

storev == <<st_written, st_files>>

cfgv == <<cf_file, cf_pc, cf_ollama, cf_run>>

\* the variables of the specifications of one function or one call on its own
standalone == <<scopev, chunkv, enrichv, storev, cfgv>>

vars == <<config, main_pc, disc, smap, discovered_urls, crawler, frontier, wk, prog,
          hist, standalone>>

\* sitemap.xml before anything was saved
NoFile == [exists |-> FALSE, locs |-> << >>]

ZeroCount == [u \in Universe |-> 0]

\* the state of a run that has not begun, but for its configuration
RunNotBegun ==
    /\ main_pc = "validate"
    /\ spider_urls = {}
    /\ scheduled = {}
    /\ discovery_complete_event = FALSE
    /\ sitemap_urls = {}
    /\ sitemap_file = NoFile
    /\ discovered_urls = {}
    /\ crawler = "none"
    /\ urls_to_process = << >>
    /\ unfinished_tasks = 0
    /\ processed_urls = {}
    /\ queued_urls = {}
    /\ pc = << >>
    /\ cur_url = << >>
    /\ retry_count = << >>
    /\ held = << >>
    /\ progress_total = 0
    /\ progress_n = 0
    /\ fetch_calls = ZeroCount
    /\ fetch_ok = ZeroCount
    /\ put_count = ZeroCount
    /\ dropped = {}
    /\ all_ok = TRUE
    /\ save_count = 0
    /\ config_error = FALSE
    /\ link_loops_run = {}
    /\ extract_count = ZeroCount

NoScopeCheck ==
    /\ sc_url = NoUrl
    /\ sc_start = NoUrl
    /\ sc_result = "pending"

\* chunk_text is not running
NoChunking ==
    /\ ck_text = << >>
    /\ ck_size = 1
    /\ ck_start = 0
    /\ ck_chunks = << >>
    /\ ck_cuts = << >>
    /\ ck_pc = "none"

\* process_and_store_document is not running
NoEnrichment ==
    /\ en_chunks = 0
    /\ en_pc = << >>
    /\ en_summary = << >>
    /\ en_failures = << >>
    /\ en_embed_calls = << >>
    /\ en_waits = << >>
    /\ en_embedding = << >>
    /\ en_doc_pc = "none"
    /\ en_save_attempts = << >>
    /\ en_files = {}

\* save_chunk_to_file has written nothing
NoStore ==
    /\ st_written = {}
    /\ st_files = {}

\* a config.json that does not exist
NoConfigFile == [kind |-> "missing", data |-> << >>]

\* the startup of the program is not looked at
NoConfigLoad ==
    /\ cf_file = NoConfigFile
    /\ cf_pc = "none"
    /\ cf_ollama = << >>
    /\ cf_run = << >>

\* the mutant of SemaphoreInit that is off by one
SemaphoreInit_OffByOne(mc) == mc + 1

\* WebCrawler.__init__: asyncio.Semaphore(max_concurrent)
SemaphoreInit(mc) == mc

\* MainApp.__init__ with the arguments of the run
Init ==
    /\ start_url \in StartUrls
    /\ max_concurrent \in 1..MaxConcurrent
    /\ max_retries \in 0..MaxRetries
    /\ semaphore = SemaphoreInit(max_concurrent)
    /\ RunNotBegun
    /\ NoStore
    /\ NoConfigLoad
    /\ NoScopeCheck
    /\ NoChunking
    /\ NoEnrichment

(***************************************************************************)
(* The sitemap store.                                                      *)
(***************************************************************************)
\* MainApp.__init__: self.domain = get_domain(args['url'])
Domain == get_domain(start_url)

\* SitemapGenerator.add_url: the set after add_url(url)
add_url(urls, url) == IF get_domain(url) = Domain THEN urls \cup {url} ELSE urls

\* SitemapGenerator.save_sitemap: the <loc> entries written, sorted
save_sitemap(urls) == [exists |-> TRUE, locs |-> Sorted(urls)]

\* SitemapGenerator.load_urls on the file as it stands
load_urls(file) ==
    IF ~file.exists THEN {}
    ELSE LET normalized == {RStrip(file.locs[i]) : i \in 1..Len(file.locs)}
         IN  {u \in normalized : should_crawl_url(u, start_url)}

(***************************************************************************)
(* MainApp.run up to the fetch phase, and the discovery spider.            *)
(***************************************************************************)
\* ollama_client.validate_config returns: the run goes on to discovery
ValidateConfigOk ==
    /\ main_pc = "validate"
    /\ main_pc' = "discover"
    /\ UNCHANGED <<config, disc, smap, discovered_urls, crawler, frontier, wk, prog,
                   hist, standalone>>

\* the mutant of ValidateConfigFails that logs the error and goes on to discovery
ValidateConfigFails_NoExit ==
    /\ main_pc = "validate"
    /\ config_error' = TRUE
    /\ main_pc' = "discover"
    /\ UNCHANGED <<config, disc, smap, discovered_urls, crawler, frontier, wk, prog,
                   fetch_calls, fetch_ok, put_count, dropped, all_ok, save_count,
                   link_loops_run, extract_count, standalone>>

\* ollama_client.validate_config raises ValueError: sys.exit(1)
ValidateConfigFails ==
    /\ main_pc = "validate"
    /\ config_error' = TRUE
    /\ main_pc' = "exit"
    /\ UNCHANGED <<config, disc, smap, discovered_urls, crawler, frontier, wk, prog,
                   fetch_calls, fetch_ok, put_count, dropped, all_ok, save_count,
                   link_loops_run, extract_count, standalone>>

\* scrapy_crawl: process.crawl(SitemapSpider, start_urls=[start_url]); process.start()
ScrapyCrawlStart ==
    /\ main_pc = "discover"
    /\ main_pc' = "discovering"
    /\ scheduled' = {start_url}
    /\ UNCHANGED <<config, spider_urls, discovery_complete_event, smap, discovered_urls,
                   crawler, frontier, wk, prog, hist, standalone>>

\* the mutant of ParseRequests that yields a request for every unseen link
ParseRequests_Unfiltered(url, seen) ==
    {l \in {RStrip(x) : x \in SpiderLinks(url)} : l \notin seen}

\* SitemapSpider.parse: the requests it yields for the links of a new page
ParseRequests(url, seen) ==
    {l \in {RStrip(x) : x \in SpiderLinks(url)} :
        should_crawl_url(l, start_url) /\ l \notin seen}

\* SitemapSpider.parse(response), the response of a scheduled request
SpiderParse(url) ==
    /\ main_pc = "discovering"
    /\ url \in scheduled
    /\ LET normalized_url == RStrip(url)
       IN  IF normalized_url \notin spider_urls
           THEN /\ spider_urls' = spider_urls \cup {normalized_url}
                /\ sitemap_urls' = add_url(sitemap_urls, normalized_url)
                /\ extract_count' = [extract_count EXCEPT ![normalized_url] = @ + 1]
                /\ scheduled' = (scheduled \ {url})
                                   \cup ParseRequests(url, spider_urls')
           ELSE /\ scheduled' = scheduled \ {url}
                /\ UNCHANGED <<spider_urls, sitemap_urls, extract_count>>
    /\ UNCHANGED <<config, main_pc, discovery_complete_event, sitemap_file,
                   discovered_urls, crawler, frontier, wk, prog, fetch_calls, fetch_ok,
                   put_count, dropped, all_ok, save_count, config_error, link_loops_run,
                   standalone>>

\* SitemapSpider.handle_error(failure): a scheduled request failed
SpiderHandleError(url) ==
    /\ main_pc = "discovering"
    /\ url \in scheduled
    /\ scheduled' = scheduled \ {url}
    /\ all_ok' = FALSE
    /\ UNCHANGED <<config, main_pc, spider_urls, discovery_complete_event, smap,
                   discovered_urls, crawler, frontier, wk, prog, fetch_calls, fetch_ok,
                   put_count, dropped, save_count, config_error, link_loops_run,
                   extract_count, standalone>>

\* the engine closes the spider once no request is left
SpiderIdle == scheduled = {}

\* the mutant of SpiderClosed that sets the event without saving the sitemap
SpiderClosed_NoSave ==
    /\ main_pc = "discovering"
    /\ SpiderIdle
    /\ ~discovery_complete_event
    /\ discovery_complete_event' = TRUE
    /\ UNCHANGED <<config, main_pc, spider_urls, scheduled, smap,
                   discovered_urls, crawler, frontier, wk, prog, hist, standalone>>

\* SitemapSpider.closed(reason): save_sitemap(), then discovery_complete_event.set()
SpiderClosed ==
    /\ main_pc = "discovering"
    /\ SpiderIdle
    /\ ~discovery_complete_event
    /\ sitemap_file' = save_sitemap(sitemap_urls)
    /\ save_count' = save_count + 1
    /\ discovery_complete_event' = TRUE
    /\ UNCHANGED <<config, main_pc, spider_urls, scheduled, sitemap_urls,
                   discovered_urls, crawler, frontier, wk, prog, fetch_calls, fetch_ok,
                   put_count, dropped, all_ok, config_error, link_loops_run,
                   extract_count, standalone>>

\* scrapy_crawl: self.discovery_complete_event.wait() returns
DiscoveryWaitReturns == discovery_complete_event

\* MainApp.run: discovered_urls = self.sitemap.load_urls(); sys.exit(1) when empty
MainLoadUrls ==
    /\ main_pc = "discovering"
    /\ DiscoveryWaitReturns
    /\ discovered_urls' = load_urls(sitemap_file)
    /\ main_pc' = IF discovered_urls' = {} THEN "exit" ELSE "crawl_parallel"
    /\ UNCHANGED <<config, disc, smap, crawler, frontier, wk, prog, hist, standalone>>

(***************************************************************************)
(* WebCrawler.crawl_parallel: the fetch phase.  A task runs without        *)
(* interruption between two of its suspension points (asyncio), so one     *)
(* action is the code from one suspension point to the next.  The queue is *)
(* unbounded: get on a non-empty queue and put do not suspend.             *)
(***************************************************************************)
\* crawl_parallel: range(self.max_concurrent), the workers created
PoolSize(mc) == mc

Workers == DOMAIN pc

\* the worker tasks run while crawl_parallel is suspended in its await of join();
\* from there to its await of crawler.close() crawl_parallel runs uninterrupted
WorkersRun == main_pc = "join"

\* the count of puts after the urls of a sequence were put
RECURSIVE CountPuts(_, _)
CountPuts(count, urls) ==
    IF urls = << >> THEN count
    ELSE CountPuts([count EXCEPT ![Head(urls)] = @ + 1], Tail(urls))

RECURSIVE SumOver(_, _)
SumOver(f, S) ==
    IF S = {} THEN 0
    ELSE LET x == CHOOSE y \in S : TRUE IN f[x] + SumOver(f, S \ {x})

\* crawl_parallel(list(discovered_urls)) up to its await of urls_to_process.join()
CrawlParallelStart ==
    /\ main_pc = "crawl_parallel"
    /\ \E urls \in Orderings(discovered_urls) :
          /\ urls_to_process' = urls
          /\ unfinished_tasks' = Len(urls)
          /\ put_count' = CountPuts(put_count, urls)
          /\ progress_total' = Len(urls)
    /\ crawler' = "started"
    /\ pc' = [w \in 1..PoolSize(max_concurrent) |-> "idle"]
    /\ cur_url' = [w \in 1..PoolSize(max_concurrent) |-> NoUrl]
    /\ retry_count' = [w \in 1..PoolSize(max_concurrent) |-> 0]
    /\ held' = [w \in 1..PoolSize(max_concurrent) |-> 0]
    /\ main_pc' = "join"
    /\ UNCHANGED <<config, disc, smap, discovered_urls, processed_urls, queued_urls,
                   semaphore, progress_n, fetch_calls, fetch_ok, dropped, all_ok,
                   save_count, config_error, link_loops_run, extract_count, standalone>>

\* the mutant of ProcessUrlSkips that does not look at queued_urls
ProcessUrlSkips_NoQueuedCheck(url) ==
    \/ url \in processed_urls
    \/ ~should_crawl_url(url, start_url)

\* the mutant of ProcessUrlSkips that does not apply the scope filter
ProcessUrlSkips_NoScopeCheck(url) ==
    \/ url \in processed_urls
    \/ url \in queued_urls

\* process_url: the condition of its early return
ProcessUrlSkips(url) ==
    \/ url \in processed_urls
    \/ url \in queued_urls
    \/ ~should_crawl_url(url, start_url)

\* the mutant of ReturnToWorker that does not call task_done
ReturnToWorker_NoTaskDone(w) ==
    /\ semaphore' = semaphore + held[w]
    /\ held' = [held EXCEPT ![w] = 0]
    /\ pc' = [pc EXCEPT ![w] = "idle"]
    /\ cur_url' = [cur_url EXCEPT ![w] = NoUrl]
    /\ retry_count' = [retry_count EXCEPT ![w] = 0]
    /\ UNCHANGED unfinished_tasks

\* every process_url frame of the worker returns: each leaves its
\* "async with self.semaphore"; then process_worker: urls_to_process.task_done()
ReturnToWorker(w) ==
    /\ semaphore' = semaphore + held[w]
    /\ held' = [held EXCEPT ![w] = 0]
    /\ pc' = [pc EXCEPT ![w] = "idle"]
    /\ cur_url' = [cur_url EXCEPT ![w] = NoUrl]
    /\ retry_count' = [retry_count EXCEPT ![w] = 0]
    /\ unfinished_tasks' = unfinished_tasks - 1

\* the same, for a url that process_url leaves without a successful fetch
DropUrl(w) ==
    /\ ReturnToWorker(w)
    /\ dropped' = dropped \cup {cur_url[w]}

\* process_worker: url = await urls_to_process.get(), up to the first suspension
WorkerGet(w) ==
    /\ WorkersRun
    /\ pc[w] = "idle"
    /\ urls_to_process # << >>
    /\ LET url == Head(urls_to_process)
       IN  /\ urls_to_process' = Tail(urls_to_process)
           /\ IF url \in processed_urls \/ ProcessUrlSkips(url)
              THEN /\ unfinished_tasks' = unfinished_tasks - 1
                   /\ UNCHANGED <<queued_urls, wk>>
              ELSE /\ queued_urls' = queued_urls \cup {url}
                   /\ pc' = [pc EXCEPT ![w] = "acquire"]
                   /\ cur_url' = [cur_url EXCEPT ![w] = url]
                   /\ retry_count' = [retry_count EXCEPT ![w] = 0]
                   /\ UNCHANGED <<unfinished_tasks, held, semaphore>>
    /\ UNCHANGED <<config, main_pc, disc, smap, discovered_urls, crawler,
                   processed_urls, prog, hist, standalone>>

\* process_url: async with self.semaphore is entered and crawler.arun is called
Acquire(w) ==
    /\ WorkersRun
    /\ pc[w] = "acquire"
    /\ semaphore > 0
    /\ semaphore' = semaphore - 1
    /\ held' = [held EXCEPT ![w] = @ + 1]
    /\ pc' = [pc EXCEPT ![w] = "arun"]
    /\ fetch_calls' = [fetch_calls EXCEPT ![cur_url[w]] = @ + 1]
    /\ UNCHANGED <<config, main_pc, disc, smap, discovered_urls, crawler, frontier,
                   cur_url, retry_count, prog, fetch_ok, put_count, dropped, all_ok,
                   save_count, config_error, link_loops_run, extract_count, standalone>>

\* the mutant of FetchSuccess that leaves progress.update() out
FetchSuccess_NoUpdate(w) ==
    /\ WorkersRun
    /\ pc[w] = "arun"
    /\ processed_urls' = processed_urls \cup {cur_url[w]}
    /\ sitemap_urls' = add_url(sitemap_urls, cur_url[w])
    /\ fetch_ok' = [fetch_ok EXCEPT ![cur_url[w]] = @ + 1]
    /\ pc' = [pc EXCEPT ![w] = "process_document"]
    /\ UNCHANGED <<config, main_pc, disc, sitemap_file, discovered_urls, crawler,
                   urls_to_process, unfinished_tasks, queued_urls, cur_url, retry_count,
                   held, semaphore, prog, fetch_calls, put_count, dropped, all_ok,
                   save_count, config_error, link_loops_run, extract_count, standalone>>

\* crawler.arun returns a result with success: the url is processed, added to the
\* sitemap and counted, and process_and_store_document is awaited
FetchSuccess(w) ==
    /\ WorkersRun
    /\ pc[w] = "arun"
    /\ processed_urls' = processed_urls \cup {cur_url[w]}
    /\ sitemap_urls' = add_url(sitemap_urls, cur_url[w])
    /\ progress_n' = progress_n + 1
    /\ fetch_ok' = [fetch_ok EXCEPT ![cur_url[w]] = @ + 1]
    /\ pc' = [pc EXCEPT ![w] = "process_document"]
    /\ UNCHANGED <<config, main_pc, disc, sitemap_file, discovered_urls, crawler,
                   urls_to_process, unfinished_tasks, queued_urls, cur_url, retry_count,
                   held, semaphore, progress_total, fetch_calls, put_count, dropped,
                   all_ok, save_count, config_error, link_loops_run, extract_count,
                   standalone>>

\* process_url after a failure: asyncio.sleep(1) before the retry when
\* retry_count < max_retries, else the url is left
RetryOrDrop(w) ==
    IF retry_count[w] < max_retries
    THEN /\ pc' = [pc EXCEPT ![w] = "sleep"]
         /\ UNCHANGED <<cur_url, retry_count, held, semaphore, unfinished_tasks, dropped>>
    ELSE IF cur_url[w] \in processed_urls
         THEN ReturnToWorker(w) /\ UNCHANGED dropped
         ELSE DropUrl(w)

\* the mutant of FetchUnsuccessful that adds the url to the sitemap all the same
FetchUnsuccessful_AddsUrl(w) ==
    /\ WorkersRun
    /\ pc[w] = "arun"
    /\ RetryOrDrop(w)
    /\ all_ok' = FALSE
    /\ sitemap_urls' = add_url(sitemap_urls, cur_url[w])
    /\ UNCHANGED <<config, main_pc, disc, sitemap_file, discovered_urls, crawler,
                   urls_to_process, processed_urls, queued_urls, prog, fetch_calls,
                   fetch_ok, put_count, save_count, config_error, link_loops_run,
                   extract_count, standalone>>

\* crawler.arun returns a result without success
FetchUnsuccessful(w) ==
    /\ WorkersRun
    /\ pc[w] = "arun"
    /\ RetryOrDrop(w)
    /\ all_ok' = FALSE
    /\ UNCHANGED <<config, main_pc, disc, smap, discovered_urls, crawler,
                   urls_to_process, processed_urls, queued_urls, prog, fetch_calls,
                   fetch_ok, put_count, save_count, config_error, link_loops_run,
                   extract_count, standalone>>

\* crawler.arun raises
FetchRaises(w) ==
    /\ WorkersRun
    /\ pc[w] = "arun"
    /\ RetryOrDrop(w)
    /\ all_ok' = FALSE
    /\ UNCHANGED <<config, main_pc, disc, smap, discovered_urls, crawler,
                   urls_to_process, processed_urls, queued_urls, prog, fetch_calls,
                   fetch_ok, put_count, save_count, config_error, link_loops_run,
                   extract_count, standalone>>

\* asyncio.sleep(1) is over: await process_url(url, retry_count + 1)
SleepDone(w) ==
    /\ WorkersRun
    /\ pc[w] = "sleep"
    /\ IF ProcessUrlSkips(cur_url[w])
       THEN /\ IF cur_url[w] \in processed_urls
               THEN ReturnToWorker(w) /\ UNCHANGED dropped
               ELSE DropUrl(w)
            /\ UNCHANGED queued_urls
       ELSE /\ queued_urls' = queued_urls \cup {cur_url[w]}
            /\ pc' = [pc EXCEPT ![w] = "acquire"]
            /\ retry_count' = [retry_count EXCEPT ![w] = @ + 1]
            /\ UNCHANGED <<cur_url, held, semaphore, unfinished_tasks, dropped>>
    /\ UNCHANGED <<config, main_pc, disc, smap, discovered_urls, crawler,
                   urls_to_process, processed_urls, prog, fetch_calls, fetch_ok,
                   put_count, all_ok, save_count, config_error, link_loops_run,
                   extract_count, standalone>>

\* process_url: the test a link passes to be put onto urls_to_process
LinkIsEnqueued(link_url) ==
    /\ get_domain(link_url) = get_domain(start_url)
    /\ link_url \notin processed_urls
    /\ link_url \notin queued_urls

\* process_url: the puts of its two loops, over result.markdown_v2.links and then
\* over the anchors of result.cleaned_html
ExtractedLinks(url) == SelectSeq(MdLinks(url) \o HtmlLinks(url), LinkIsEnqueued)

\* process_and_store_document returns: the links are put, process_url returns
ProcessDocumentReturns(w) ==
    /\ WorkersRun
    /\ pc[w] = "process_document"
    /\ LET links == ExtractedLinks(cur_url[w])
       IN  /\ urls_to_process' = urls_to_process \o links
           /\ put_count' = CountPuts(put_count, links)
           /\ semaphore' = semaphore + held[w]
           /\ held' = [held EXCEPT ![w] = 0]
           /\ pc' = [pc EXCEPT ![w] = "idle"]
           /\ cur_url' = [cur_url EXCEPT ![w] = NoUrl]
           /\ retry_count' = [retry_count EXCEPT ![w] = 0]
           /\ unfinished_tasks' = unfinished_tasks + Len(links) - 1
    /\ link_loops_run' = link_loops_run \cup {cur_url[w]}
    /\ UNCHANGED <<config, main_pc, disc, smap, discovered_urls, crawler,
                   processed_urls, queued_urls, prog, fetch_calls, fetch_ok, dropped,
                   all_ok, save_count, config_error, extract_count, standalone>>

\* process_and_store_document raises (process_chunk on a response without a title)
ProcessDocumentRaises(w) ==
    /\ WorkersRun
    /\ pc[w] = "process_document"
    /\ RetryOrDrop(w)
    /\ UNCHANGED <<config, main_pc, disc, smap, discovered_urls, crawler,
                   urls_to_process, processed_urls, queued_urls, prog, fetch_calls,
                   fetch_ok, put_count, all_ok, save_count, config_error,
                   link_loops_run, extract_count, standalone>>

\* the mutant of QueueJoined that waits for the queue to be empty
QueueJoined_Empty == urls_to_process = << >>

\* urls_to_process.join(): every item put was marked done
QueueJoined == unfinished_tasks = 0


\* crawl_parallel: await urls_to_process.join() returns
MainJoinReturns ==
    /\ main_pc = "join"
    /\ QueueJoined
    /\ main_pc' = "cancel"
    /\ UNCHANGED <<config, disc, smap, discovered_urls, crawler, frontier, wk, prog,
                   hist, standalone>>

\* crawl_parallel, finally: worker.cancel() for every worker; progress.close().
\* A cancelled task leaves its "async with" on the way out.
MainCancelWorkers ==
    /\ main_pc = "cancel"
    /\ pc' = [w \in Workers |-> "cancelled"]
    /\ semaphore' = semaphore + SumOver(held, Workers)
    /\ held' = [w \in Workers |-> 0]
    /\ main_pc' = "save"
    /\ UNCHANGED <<config, disc, smap, discovered_urls, crawler, frontier, cur_url,
                   retry_count, prog, hist, standalone>>

\* crawl_parallel: self.sitemap.save_sitemap()
MainSaveSitemap ==
    /\ main_pc = "save"
    /\ sitemap_file' = save_sitemap(sitemap_urls)
    /\ save_count' = save_count + 1
    /\ main_pc' = "close"
    /\ UNCHANGED <<config, disc, sitemap_urls, discovered_urls, crawler, frontier, wk,
                   prog, fetch_calls, fetch_ok, put_count, dropped, all_ok,
                   config_error, link_loops_run, extract_count, standalone>>

\* crawl_parallel: await crawler.close()
MainCloseCrawler ==
    /\ main_pc = "close"
    /\ crawler' = "closed"
    /\ main_pc' = "done"
    /\ UNCHANGED <<config, disc, smap, discovered_urls, frontier, wk, prog, hist,
                   standalone>>

Next ==
    \/ ValidateConfigOk
    \/ ValidateConfigFails
    \/ ScrapyCrawlStart
    \/ \E url \in Universe : SpiderParse(url)
    \/ \E url \in Universe : SpiderHandleError(url)
    \/ SpiderClosed
    \/ MainLoadUrls
    \/ CrawlParallelStart
    \/ \E w \in Workers : WorkerGet(w)
    \/ \E w \in Workers : Acquire(w)
    \/ \E w \in Workers : FetchSuccess(w)
    \/ \E w \in Workers : FetchUnsuccessful(w)
    \/ \E w \in Workers : FetchRaises(w)
    \/ \E w \in Workers : SleepDone(w)
    \/ \E w \in Workers : ProcessDocumentReturns(w)
    \/ \E w \in Workers : ProcessDocumentRaises(w)
    \/ MainJoinReturns
    \/ MainCancelWorkers
    \/ MainSaveSitemap
    \/ MainCloseCrawler

Spec == Init /\ [][Next]_vars

\* every call returns and the event loop runs every task that can run
FairSpec == Spec /\ WF_vars(Next)


(***************************************************************************)
(* The scope filter on its own: should_crawl_url applied to every pair of  *)
(* a url and a start url of a small set.                                   *)
(***************************************************************************)
ScopePaths ==
    { << >>, <<"/">>, <<"/", "d">>, <<"/", "d", "/">>, <<"/", "d", "/", "a">>,
      <<"/", "d", "/", "a", "/">>, <<"/", "d", "a">>, <<"/", "x">> }

ScopeUrls == {Url(n, p) : n \in Netlocs, p \in ScopePaths}

ScopeInit ==
    /\ start_url = Docs
    /\ max_concurrent = 1
    /\ max_retries = 0
    /\ semaphore = SemaphoreInit(1)
    /\ RunNotBegun
    /\ NoStore
    /\ NoConfigLoad
    /\ sc_url \in ScopeUrls
    /\ sc_start \in ScopeUrls
    /\ sc_result = "pending"
    /\ NoChunking
    /\ NoEnrichment

\* should_crawl_url(sc_url, sc_start) is called and returns
ScopeCheck ==
    /\ sc_result = "pending"
    /\ sc_result' = IF should_crawl_url(sc_url, sc_start) THEN "True" ELSE "False"
    /\ UNCHANGED <<config, main_pc, disc, smap, discovered_urls, crawler, frontier, wk,
                   prog, hist, sc_url, sc_start, chunkv, enrichv, storev, cfgv>>

ScopeNext == ScopeCheck

SpecScope == ScopeInit /\ [][ScopeNext]_vars

(***************************************************************************)
(* DocumentProcessor.chunk_text on its own: every text of up to MaxTextLen *)
(* characters, over a letter, the two whitespace characters and the two    *)
(* punctuation characters of its break rules, with every chunk_size up to  *)
(* MaxChunkSize.  One action is one iteration of its while loop.           *)
(***************************************************************************)
Letters == {"a"}

Whitespace == {" ", "\n"}

\* the character of a code fence, the backquote, written out
Backquote == "backquote"

Chars == Letters \cup Whitespace \cup {".", Backquote}

Texts == UNION {[1..k -> Chars] : k \in 0..MaxTextLen}

\* a text for each break rule, the break far enough into the window to be taken
BreakTexts ==
    { <<"a", "a", Backquote, Backquote, Backquote>>,
      <<"a", "a", "\n", "\n", "a">>,
      <<"a", "a", ".", " ", "a">> }

\* the short texts, and the three with a break
LoopTexts == {t \in Texts : Len(t) <= MaxLoopTextLen} \cup BreakTexts

Min(a, b) == IF a < b THEN a ELSE b

Max(a, b) == IF a > b THEN a ELSE b

\* text[from:to]
Slice(text, from, to) == SubSeq(text, from + 1, to)

\* str.rfind(sub): the highest index at which sub occurs, -1 when it does not
rfind(chunk, sub) ==
    LET found == {i \in 0..(Len(chunk) - Len(sub)) :
                     SubSeq(chunk, i + 1, i + Len(sub)) = sub}
    IN  IF found = {} THEN -1 ELSE CHOOSE i \in found : \A j \in found : j <= i

RECURSIVE lstrip(_)
lstrip(s) ==
    IF s # << >> /\ Head(s) \in Whitespace THEN lstrip(Tail(s)) ELSE s

RECURSIVE rstrip(_)
rstrip(s) ==
    IF s # << >> /\ s[Len(s)] \in Whitespace
    THEN rstrip(SubSeq(s, 1, Len(s) - 1)) ELSE s

\* str.strip()
strip(s) == rstrip(lstrip(s))

\* chunk_text: end = min(start + chunk_size, text_length)
WindowEnd(start, chunk_size, text_length) == Min(start + chunk_size, text_length)

\* the mutant of BreakAccepted that takes a break wherever it is found
BreakAccepted_Anywhere(last, chunk_size) == last >= 0

\* chunk_text: last_... > chunk_size * 0.3
BreakAccepted(last, chunk_size) == 10 * last > 3 * chunk_size

\* the mutant of BreakEnd that tries the break rules in the reverse order
BreakEnd_SentenceFirst(text, start, chunk_size) ==
    LET end == WindowEnd(start, chunk_size, Len(text))
        chunk == Slice(text, start, end)
        last_code_block == rfind(chunk, <<Backquote, Backquote, Backquote>>)
        last_paragraph_break == rfind(chunk, <<"\n", "\n">>)
        last_sentence_break == rfind(chunk, <<".", " ">>)
    IN  IF BreakAccepted(last_sentence_break, chunk_size)
        THEN start + last_sentence_break + 1
        ELSE IF BreakAccepted(last_paragraph_break, chunk_size)
        THEN start + last_paragraph_break
        ELSE IF BreakAccepted(last_code_block, chunk_size)
        THEN start + last_code_block
        ELSE end

\* chunk_text: the end of the slice after the break rules, tried in their order
BreakEnd(text, start, chunk_size) ==
    LET end == WindowEnd(start, chunk_size, Len(text))
        chunk == Slice(text, start, end)
        last_code_block == rfind(chunk, <<Backquote, Backquote, Backquote>>)
        last_paragraph_break == rfind(chunk, <<"\n", "\n">>)
        last_sentence_break == rfind(chunk, <<".", " ">>)
    IN  IF BreakAccepted(last_code_block, chunk_size)
        THEN start + last_code_block
        ELSE IF BreakAccepted(last_paragraph_break, chunk_size)
        THEN start + last_paragraph_break
        ELSE IF BreakAccepted(last_sentence_break, chunk_size)
        THEN start + last_sentence_break + 1
        ELSE end

\* the mutant of ChunkAdvance that makes successive windows overlap by one
ChunkAdvance_Overlap(start, end) == end - 1

\* chunk_text: start = max(start + 1, end)
ChunkAdvance(start, end) == Max(start + 1, end)

\* chunk_text(text, chunk_size) is called with a text and a chunk size of two
\* sets: chunks = [], start = 0
ChunkTextCalledWith(texts, sizes) ==
    /\ start_url = Docs
    /\ max_concurrent = 1
    /\ max_retries = 0
    /\ semaphore = SemaphoreInit(1)
    /\ RunNotBegun
    /\ NoStore
    /\ NoConfigLoad
    /\ NoScopeCheck
    /\ ck_text \in texts
    /\ ck_size \in sizes
    /\ ck_start = 0
    /\ ck_chunks = << >>
    /\ ck_cuts = << >>
    /\ ck_pc = "loop"
    /\ NoEnrichment

ChunkTextCalled(texts) == ChunkTextCalledWith(texts, 1..MaxChunkSize)

ChunkInit == ChunkTextCalled(Texts)

LoopInit == ChunkTextCalled(LoopTexts)

\* one iteration of "while start < text_length"
ChunkIteration ==
    /\ ck_pc = "loop"
    /\ ck_start < Len(ck_text)
    /\ LET end == BreakEnd(ck_text, ck_start, ck_size)
           chunk == strip(Slice(ck_text, ck_start, end))
       IN  /\ ck_chunks' = IF chunk # << >> THEN Append(ck_chunks, chunk) ELSE ck_chunks
           /\ ck_cuts' = Append(ck_cuts, [from |-> ck_start, to |-> end, chunk |-> chunk])
           /\ ck_start' = ChunkAdvance(ck_start, end)
    /\ UNCHANGED <<config, main_pc, disc, smap, discovered_urls, crawler, frontier, wk,
                   prog, hist, scopev, ck_text, ck_size, ck_pc, enrichv, storev, cfgv>>

\* the loop is left: return chunks
ChunkReturn ==
    /\ ck_pc = "loop"
    /\ ~(ck_start < Len(ck_text))
    /\ ck_pc' = "returned"
    /\ UNCHANGED <<config, main_pc, disc, smap, discovered_urls, crawler, frontier, wk,
                   prog, hist, scopev, ck_text, ck_size, ck_start, ck_chunks, ck_cuts,
                   enrichv, storev, cfgv>>

ChunkNext ==
    \/ ChunkIteration
    \/ ChunkReturn

SpecChunk == ChunkInit /\ [][ChunkNext]_vars

\* the three separators chunk_text looks for, and a letter
Pieces ==
    { <<Backquote, Backquote, Backquote>>, <<"\n", "\n">>, <<".", " ">>, <<"a">> }

\* the texts put together of at most k pieces: several breaks in one window
RECURSIVE PieceTexts(_)
PieceTexts(k) ==
    IF k = 0 THEN {<< >>}
    ELSE LET shorter == PieceTexts(k - 1)
         IN  shorter \cup {t \o piece : t \in shorter, piece \in Pieces}

BreakInit == ChunkTextCalledWith(PieceTexts(MaxPieces), 1..MaxBreakSize)

\* chunk_text on the texts with several breaks
SpecBreak == BreakInit /\ [][ChunkNext]_vars

\* the interpreter runs the loop on
FairSpecChunk == LoopInit /\ [][ChunkNext]_vars /\ WF_vars(ChunkNext)

(***************************************************************************)
(* DocumentProcessor.process_and_store_document for one fetched page, with *)
(* the two requests OllamaClient makes for each chunk, the save loop, and   *)
(* what process_url does when the call returns or raises.  The tasks of    *)
(* asyncio.gather run interleaved; task i works on chunk number i - 1.      *)
(***************************************************************************)
\* ollama_client.get_embedding: the length of [0] * 768
EmbedDim == 768

\* ollama_client.retry_with_backoff: max_retries
EmbedRetries == 3

Tasks == 1..en_chunks

\* [0] * n
ZeroVector(n) == [dim |-> n, zero |-> TRUE]

\* the "embedding" of a response of the embed model
ModelVector == [dim |-> EmbedDim, zero |-> FALSE]

NoEmbedding == [dim |-> 0, zero |-> TRUE]

\* get_title_and_summary: the dict of its two except branches
Sentinel == [title |-> "Error processing title", summary |-> "Error processing summary"]

\* a JSON object with a title and a summary, as the prompt asks for
ModelAnswer == [title |-> "a title", summary |-> "a summary"]

NoAnswer == [title |-> "", summary |-> ""]

\* what the summarize request can come to: an object with title and summary; an
\* exception of the request or an error status; a "response" string that is no
\* JSON; a JSON object without title or summary; JSON that is no object
SummarizeOutcomes ==
    {"ok", "transport_error", "not_json", "object_without_keys", "json_not_object"}

\* get_title_and_summary: what it returns; keys tells whether
\* extracted['title'] and extracted['summary'] can be read
get_title_and_summary(outcome) ==
    CASE outcome = "ok" -> [keys |-> TRUE, value |-> ModelAnswer]
      [] outcome = "transport_error" -> [keys |-> TRUE, value |-> Sentinel]
      [] outcome = "not_json" -> [keys |-> TRUE, value |-> Sentinel]
      [] outcome = "object_without_keys" -> [keys |-> FALSE, value |-> NoAnswer]
      [] outcome = "json_not_object" -> [keys |-> FALSE, value |-> NoAnswer]
      [] OTHER -> [keys |-> FALSE, value |-> NoAnswer]

\* the mutant of EmbedFallback that returns an empty list
EmbedFallback_Empty == ZeroVector(0)

\* get_embedding: return [0] * 768 after retry_with_backoff has raised
EmbedFallback == ZeroVector(EmbedDim)

\* _get_embedding: response.json().get("embedding", [0] * 768) without the key
EmbedDefault == ZeroVector(EmbedDim)

\* process_chunk: the ProcessedChunk it builds
ProcessedChunk(i, extracted, embedding) ==
    [chunk_number |-> i - 1, title |-> extracted.value.title,
     summary |-> extracted.value.summary, embedding |-> embedding]

\* the ProcessedChunk of a task that has returned
RecordOf(i) ==
    ProcessedChunk(i, get_title_and_summary(en_summary[i]), en_embedding[i])

\* process_and_store_document(url, markdown, output_dir) is called for a page
\* of up to MaxChunks chunks: gather starts a process_chunk task per chunk, each
\* with its summarize request
EnrichInit ==
    /\ start_url = Docs
    /\ max_concurrent = 1
    /\ max_retries = 0
    /\ semaphore = SemaphoreInit(1)
    /\ RunNotBegun
    /\ NoStore
    /\ NoConfigLoad
    /\ NoScopeCheck
    /\ NoChunking
    /\ en_chunks \in 0..MaxChunks
    /\ en_pc = [i \in Tasks |-> "summarize"]
    /\ en_summary = [i \in Tasks |-> "pending"]
    /\ en_failures = [i \in Tasks |-> 0]
    /\ en_embed_calls = [i \in Tasks |-> 0]
    /\ en_waits = [i \in Tasks |-> << >>]
    /\ en_embedding = [i \in Tasks |-> NoEmbedding]
    /\ en_doc_pc = "gather"
    /\ en_save_attempts = << >>
    /\ en_files = {}

\* get_title_and_summary returns to process_chunk, which calls get_embedding:
\* the first embed request is made
SummarizeReturns(i, outcome) ==
    /\ en_pc[i] = "summarize"
    /\ en_summary' = [en_summary EXCEPT ![i] = outcome]
    /\ en_pc' = [en_pc EXCEPT ![i] = "embed"]
    /\ en_embed_calls' = [en_embed_calls EXCEPT ![i] = @ + 1]
    /\ UNCHANGED <<config, main_pc, disc, smap, discovered_urls, crawler, frontier, wk,
                   prog, hist, scopev, chunkv, en_chunks, en_failures, en_waits,
                   en_embedding, en_doc_pc, en_save_attempts, en_files, storev, cfgv>>

\* get_embedding has returned: process_chunk builds the ProcessedChunk, reading
\* extracted['title'] and extracted['summary'], and returns it or raises
ChunkTaskEnds(i, embedding) ==
    /\ en_embedding' = [en_embedding EXCEPT ![i] = embedding]
    /\ en_pc' = [en_pc EXCEPT ![i] =
                    IF get_title_and_summary(en_summary[i]).keys THEN "done" ELSE "raised"]

\* the embed request returns a response with an "embedding"
EmbedOk(i) ==
    /\ en_pc[i] = "embed"
    /\ ChunkTaskEnds(i, ModelVector)
    /\ UNCHANGED <<config, main_pc, disc, smap, discovered_urls, crawler, frontier, wk,
                   prog, hist, scopev, chunkv, en_chunks, en_summary, en_failures,
                   en_embed_calls, en_waits, en_doc_pc, en_save_attempts, en_files,
                   storev, cfgv>>

\* the embed request returns a response without an "embedding"
EmbedWithoutKey(i) ==
    /\ en_pc[i] = "embed"
    /\ ChunkTaskEnds(i, EmbedDefault)
    /\ UNCHANGED <<config, main_pc, disc, smap, discovered_urls, crawler, frontier, wk,
                   prog, hist, scopev, chunkv, en_chunks, en_summary, en_failures,
                   en_embed_calls, en_waits, en_doc_pc, en_save_attempts, en_files,
                   storev, cfgv>>

\* the mutant of BackoffWait that waits one time unit before every retry
BackoffWait_Fixed(attempt) == 1

\* retry_with_backoff: wait_time = 2 ** attempt
BackoffWait(attempt) == 2 ^ attempt

\* the embed request raises: retry_with_backoff sleeps 2 ** attempt before the
\* next attempt, or raises after the last one, and get_embedding returns zeros
EmbedFails(i) ==
    /\ en_pc[i] = "embed"
    /\ en_failures' = [en_failures EXCEPT ![i] = @ + 1]
    /\ IF en_failures[i] = EmbedRetries - 1
       THEN /\ ChunkTaskEnds(i, EmbedFallback)
            /\ UNCHANGED en_waits
       ELSE /\ en_pc' = [en_pc EXCEPT ![i] = "backoff"]
            /\ en_waits' = [en_waits EXCEPT ![i] = Append(@, BackoffWait(en_failures[i]))]
            /\ UNCHANGED en_embedding
    /\ UNCHANGED <<config, main_pc, disc, smap, discovered_urls, crawler, frontier, wk,
                   prog, hist, scopev, chunkv, en_chunks, en_summary, en_embed_calls,
                   en_doc_pc, en_save_attempts, en_files, storev, cfgv>>

\* asyncio.sleep(wait_time) is over: the next embed request is made
BackoffDone(i) ==
    /\ en_pc[i] = "backoff"
    /\ en_pc' = [en_pc EXCEPT ![i] = "embed"]
    /\ en_embed_calls' = [en_embed_calls EXCEPT ![i] = @ + 1]
    /\ UNCHANGED <<config, main_pc, disc, smap, discovered_urls, crawler, frontier, wk,
                   prog, hist, scopev, chunkv, en_chunks, en_summary, en_failures, en_waits,
                   en_embedding, en_doc_pc, en_save_attempts, en_files, storev, cfgv>>

\* await asyncio.gather(*tasks) returns: every task has returned
GatherReturns ==
    /\ en_doc_pc = "gather"
    /\ \A i \in Tasks : en_pc[i] = "done"
    /\ en_doc_pc' = "saving"
    /\ UNCHANGED <<config, main_pc, disc, smap, discovered_urls, crawler, frontier, wk,
                   prog, hist, scopev, chunkv, en_chunks, en_pc, en_summary,
                   en_failures, en_embed_calls, en_waits, en_embedding,
                   en_save_attempts, en_files, storev, cfgv>>

\* await asyncio.gather(*tasks) raises the exception of the first task that
\* raised; process_and_store_document passes it on to process_url
GatherRaises ==
    /\ en_doc_pc = "gather"
    /\ \E i \in Tasks : en_pc[i] = "raised"
    /\ en_doc_pc' = "raised"
    /\ UNCHANGED <<config, main_pc, disc, smap, discovered_urls, crawler, frontier, wk,
                   prog, hist, scopev, chunkv, en_chunks, en_pc, en_summary,
                   en_failures, en_embed_calls, en_waits, en_embedding,
                   en_save_attempts, en_files, storev, cfgv>>

\* the chunk the save loop has come to
NextToSave == Len(en_save_attempts) + 1

\* save_chunk_to_file(chunk, output_dir) writes the file
SaveChunkWrites ==
    /\ en_doc_pc = "saving"
    /\ NextToSave \in Tasks
    /\ en_save_attempts' = Append(en_save_attempts, NextToSave)
    /\ en_files' = en_files \cup {RecordOf(NextToSave)}
    /\ UNCHANGED <<config, main_pc, disc, smap, discovered_urls, crawler, frontier, wk,
                   prog, hist, scopev, chunkv, en_chunks, en_pc, en_summary,
                   en_failures, en_embed_calls, en_waits, en_embedding, en_doc_pc,
                   storev, cfgv>>

\* the mutant of SaveChunkFails that lets the exception out of save_chunk_to_file
SaveChunkFails_Raises ==
    /\ en_doc_pc = "saving"
    /\ NextToSave \in Tasks
    /\ en_save_attempts' = Append(en_save_attempts, NextToSave)
    /\ en_doc_pc' = "raised"
    /\ UNCHANGED <<config, main_pc, disc, smap, discovered_urls, crawler, frontier, wk,
                   prog, hist, scopev, chunkv, en_chunks, en_pc, en_summary,
                   en_failures, en_embed_calls, en_waits, en_embedding, en_files,
                   storev, cfgv>>

\* save_chunk_to_file: mkdir, open or json.dump raises; the exception is logged
SaveChunkFails ==
    /\ en_doc_pc = "saving"
    /\ NextToSave \in Tasks
    /\ en_save_attempts' = Append(en_save_attempts, NextToSave)
    /\ UNCHANGED <<config, main_pc, disc, smap, discovered_urls, crawler, frontier, wk,
                   prog, hist, scopev, chunkv, en_chunks, en_pc, en_summary,
                   en_failures, en_embed_calls, en_waits, en_embedding, en_doc_pc,
                   en_files, storev, cfgv>>

\* the save loop is over: process_and_store_document returns to process_url
DocumentReturns ==
    /\ en_doc_pc = "saving"
    /\ NextToSave \notin Tasks
    /\ en_doc_pc' = "returned"
    /\ UNCHANGED <<config, main_pc, disc, smap, discovered_urls, crawler, frontier, wk,
                   prog, hist, scopev, chunkv, en_chunks, en_pc, en_summary,
                   en_failures, en_embed_calls, en_waits, en_embedding,
                   en_save_attempts, en_files, storev, cfgv>>

\* process_url goes through its two link loops
LinksExtracted ==
    /\ en_doc_pc = "returned"
    /\ en_doc_pc' = "links_extracted"
    /\ UNCHANGED <<config, main_pc, disc, smap, discovered_urls, crawler, frontier, wk,
                   prog, hist, scopev, chunkv, en_chunks, en_pc, en_summary,
                   en_failures, en_embed_calls, en_waits, en_embedding,
                   en_save_attempts, en_files, storev, cfgv>>

\* process_url: except Exception, with no link loop run; it goes on as RetryOrDrop
ProcessUrlCatches ==
    /\ en_doc_pc = "raised"
    /\ en_doc_pc' = "except"
    /\ UNCHANGED <<config, main_pc, disc, smap, discovered_urls, crawler, frontier, wk,
                   prog, hist, scopev, chunkv, en_chunks, en_pc, en_summary,
                   en_failures, en_embed_calls, en_waits, en_embedding,
                   en_save_attempts, en_files, storev, cfgv>>

\* process_url returns to process_worker: task_done(), and the next get()
WorkerContinues ==
    /\ en_doc_pc = "links_extracted"
    /\ en_doc_pc' = "worker_next"
    /\ UNCHANGED <<config, main_pc, disc, smap, discovered_urls, crawler, frontier, wk,
                   prog, hist, scopev, chunkv, en_chunks, en_pc, en_summary,
                   en_failures, en_embed_calls, en_waits, en_embedding,
                   en_save_attempts, en_files, storev, cfgv>>

EnrichNext ==
    \/ \E i \in Tasks, outcome \in SummarizeOutcomes : SummarizeReturns(i, outcome)
    \/ \E i \in Tasks : EmbedOk(i)
    \/ \E i \in Tasks : EmbedWithoutKey(i)
    \/ \E i \in Tasks : EmbedFails(i)
    \/ \E i \in Tasks : BackoffDone(i)
    \/ GatherReturns
    \/ GatherRaises
    \/ SaveChunkWrites
    \/ SaveChunkFails
    \/ DocumentReturns
    \/ LinksExtracted
    \/ ProcessUrlCatches
    \/ WorkerContinues

SpecEnrich == EnrichInit /\ [][EnrichNext]_vars

\* every request and every sleep returns, and the event loop runs every task
\* that can run
FairSpecEnrich == SpecEnrich /\ WF_vars(EnrichNext)

(***************************************************************************)
(* The save loop of process_and_store_document on its own, from the return *)
(* of asyncio.gather: the tasks have returned, each with the answer of the *)
(* model or the sentinel pair, and with a vector of the model or the zeros *)
(* that follow EmbedRetries failed requests.                               *)
(***************************************************************************)
GatherReturned ==
    /\ start_url = Docs
    /\ max_concurrent = 1
    /\ max_retries = 0
    /\ semaphore = SemaphoreInit(1)
    /\ RunNotBegun
    /\ NoStore
    /\ NoConfigLoad
    /\ NoScopeCheck
    /\ NoChunking
    /\ en_chunks \in 0..MaxChunks
    /\ en_pc = [i \in Tasks |-> "done"]
    /\ en_summary \in [Tasks -> {"ok", "transport_error"}]
    /\ en_failures \in [Tasks -> {0, EmbedRetries}]
    /\ en_embed_calls = [i \in Tasks |-> IF en_failures[i] = 0 THEN 1 ELSE EmbedRetries]
    /\ en_waits =
          [i \in Tasks |->
              IF en_failures[i] = 0 THEN << >>
              ELSE [attempt \in 1..(EmbedRetries - 1) |-> BackoffWait(attempt - 1)]]
    /\ en_embedding =
          [i \in Tasks |-> IF en_failures[i] = 0 THEN ModelVector ELSE EmbedFallback]
    /\ en_doc_pc = "saving"
    /\ en_save_attempts = << >>
    /\ en_files = {}

SaveNext ==
    \/ SaveChunkWrites
    \/ SaveChunkFails
    \/ DocumentReturns
    \/ LinksExtracted
    \/ WorkerContinues

\* the loop runs on, and process_url and process_worker with it
FairSpecSave == GatherReturned /\ [][SaveNext]_vars /\ WF_vars(SaveNext)

(***************************************************************************)
(* The chunk files on their own: sanitize_filename and save_chunk_to_file  *)
(* applied to the chunks of several URLs.  Here a URL is the record        *)
(* urlparse yields with its query, the network location a sequence of      *)
(* characters as the path is.                                              *)
(***************************************************************************)
\* re.sub(...)[:200]
TruncateLen == 200

FileUrl(n, p, q) == [netloc |-> n, path |-> p, query |-> q]

\* the characters of the URLs that [a-zA-Z0-9] matches; "/", "-" and "." are the
\* others
Alnum == {"a", "b", "h"}

\* a path longer than the file name may be, ending in a given character
LongPath(last) == <<"/">> \o [i \in 1..TruncateLen |-> "a"] \o <<last>>

\* the URLs of the pages whose chunks are saved
StoreUrls ==
    { FileUrl(<<"h">>, <<"/", "a">>, << >>),
      FileUrl(<<"h">>, <<"/", "b">>, << >>),
      FileUrl(<<"h">>, <<"/", "a", "-", "b">>, << >>),
      FileUrl(<<"h">>, <<"/", "a", "/", "b">>, << >>),
      FileUrl(<<"h">>, <<"/", "a">>, <<"a">>),
      FileUrl(<<"h">>, <<"/", "a">>, <<"b">>),
      FileUrl(<<"h">>, LongPath("a"), << >>),
      FileUrl(<<"h">>, LongPath("b"), << >>) }

\* str.strip(c): every c at the two edges goes
RECURSIVE StripChar(_, _)
StripChar(s, c) ==
    IF s # << >> /\ Head(s) = c THEN StripChar(Tail(s), c)
    ELSE IF s # << >> /\ s[Len(s)] = c THEN StripChar(SubSeq(s, 1, Len(s) - 1), c)
    ELSE s

\* DocumentProcessor.sanitize_filename
sanitize_filename(url) ==
    LET raw_name == url.netloc \o <<"_">> \o StripChar(url.path, "/")
        replaced == [i \in 1..Len(raw_name) |->
                        IF raw_name[i] \in Alnum THEN raw_name[i] ELSE "_"]
        stripped == StripChar(replaced, "_")
    IN  SubSeq(stripped, 1, Min(Len(stripped), TruncateLen))

\* save_chunk_to_file: f"{sanitize_filename(url)}_chunk_{chunk_number}.json"; the
\* number is the digits before ".json", so two names are the same just when the
\* sanitized names and the numbers are
ChunkFileName(url, chunk_number) ==
    [safe_name |-> sanitize_filename(url), chunk_number |-> chunk_number]

ChunkOf(url, chunk_number) == [url |-> url, chunk_number |-> chunk_number]

StoreInit ==
    /\ start_url = Docs
    /\ max_concurrent = 1
    /\ max_retries = 0
    /\ semaphore = SemaphoreInit(1)
    /\ RunNotBegun
    /\ NoScopeCheck
    /\ NoChunking
    /\ NoEnrichment
    /\ NoStore
    /\ NoConfigLoad

\* save_chunk_to_file(chunk, output_dir) writes: open(..., 'w') makes the file or
\* empties the one of that name.  The chunks of a page are saved in their order,
\* and a page is processed once in a run.
SaveChunkToFile(url, chunk_number) ==
    /\ Cardinality(st_written) < MaxSaves
    /\ ChunkOf(url, chunk_number) \notin st_written
    /\ chunk_number > 0 => ChunkOf(url, chunk_number - 1) \in st_written
    /\ st_written' = st_written \cup {ChunkOf(url, chunk_number)}
    /\ LET filename == ChunkFileName(url, chunk_number)
       IN  st_files' = {f \in st_files : f.filename # filename}
                          \cup {[filename |-> filename,
                                 content |-> ChunkOf(url, chunk_number)]}
    /\ UNCHANGED <<config, main_pc, disc, smap, discovered_urls, crawler, frontier, wk,
                   prog, hist, scopev, chunkv, enrichv, cfgv>>

StoreNext ==
    \E url \in StoreUrls : \E chunk_number \in 0..(MaxChunks - 1) :
        SaveChunkToFile(url, chunk_number)

SpecStore == StoreInit /\ [][StoreNext]_vars

(***************************************************************************)
(* The startup on its own: the two loads of config.json, the one of         *)
(* ollama_config at the import of main.py and the one of ArgumentHandler    *)
(* in MainApp.__init__.  A JSON object is a function of its keys; a value   *)
(* is the default of its key or another one.                                *)
(***************************************************************************)
\* the keys of DEFAULT_OLLAMA_CONFIG
OllamaKeys == {"base_url", "model", "embed_model"}

\* the keys of DEFAULT_CONFIG
ConfigKeys == OllamaKeys \cup {"url", "max_concurrent", "max_retries", "output_dir"}

ConfigValues == {"default", "custom"}

DEFAULT_OLLAMA_CONFIG == [key \in OllamaKeys |-> "default"]

DEFAULT_CONFIG == [key \in ConfigKeys |-> "default"]

JsonFile(data) == [kind |-> "json", data |-> data]

\* what config.json can be when the program starts
ConfigFiles ==
    {NoConfigFile, [kind |-> "invalid", data |-> << >>]}
        \cup {JsonFile(data) :
                 data \in UNION {[keys -> ConfigValues] : keys \in SUBSET ConfigKeys}}

\* dict.get(key, default)
DictGet(d, key, default) == IF key \in DOMAIN d THEN d[key] ELSE default

\* the program starts with one of the files
ConfigInit ==
    /\ start_url = Docs
    /\ max_concurrent = 1
    /\ max_retries = 0
    /\ semaphore = SemaphoreInit(1)
    /\ RunNotBegun
    /\ NoScopeCheck
    /\ NoChunking
    /\ NoEnrichment
    /\ NoStore
    /\ cf_file \in ConfigFiles
    /\ cf_pc = "import"
    /\ cf_ollama = << >>
    /\ cf_run = << >>

\* the mutant of the rewrite of OllamaConfig.load_config that leaves the file
NextConfigFile_Kept(file, filtered_config) == file

\* OllamaConfig.load_config: if filtered_config != config_data the file is
\* opened with "w" and filtered_config dumped into it
NextConfigFile(file, filtered_config) ==
    IF filtered_config # file.data THEN JsonFile(filtered_config) ELSE file

\* "from ollama_config import ollama_config": OllamaConfig.load_config()
OllamaLoadConfig ==
    /\ cf_pc = "import"
    /\ IF cf_file.kind # "json"
       THEN /\ cf_ollama' = DEFAULT_OLLAMA_CONFIG
            /\ UNCHANGED cf_file
       ELSE LET config_data == cf_file.data
                filtered_config ==
                    [key \in OllamaKeys |->
                        DictGet(config_data, key, DEFAULT_OLLAMA_CONFIG[key])]
            IN  /\ cf_file' = NextConfigFile(cf_file, filtered_config)
                /\ cf_ollama' = filtered_config
    /\ cf_pc' = "ollama_loaded"
    /\ UNCHANGED <<config, main_pc, disc, smap, discovered_urls, crawler, frontier, wk,
                   prog, hist, scopev, chunkv, enrichv, storev, cf_run>>

\* ArgumentHandler.get_arguments: load_config()
ArgumentLoadConfig ==
    /\ cf_pc = "ollama_loaded"
    /\ IF cf_file.kind # "json"
       THEN cf_run' = DEFAULT_CONFIG
       ELSE cf_run' = [key \in ConfigKeys |->
                          DictGet(cf_file.data, key, DEFAULT_CONFIG[key])]
    /\ cf_pc' = "run_loaded"
    /\ UNCHANGED <<config, main_pc, disc, smap, discovered_urls, crawler, frontier, wk,
                   prog, hist, scopev, chunkv, enrichv, storev, cf_file, cf_ollama>>

ConfigNext ==
    \/ OllamaLoadConfig
    \/ ArgumentLoadConfig

SpecConfig == ConfigInit /\ [][ConfigNext]_vars

(***************************************************************************)
(* The claims.                                                             *)
(***************************************************************************)
\* the workers whose crawler.arun call for a url is in flight
InFlight(url) == {w \in Workers : pc[w] = "arun" /\ cur_url[w] = url}

\* C1: a URL, however often it is put onto urls_to_process (as a seed, as a link of
\* two parent pages, by both link loops of one page), never has two crawler.arun
\* calls in flight at the same time and is fetched with success at most once.
C1_OneFetchPerUrl ==
    \A url \in Universe :
        /\ Cardinality(InFlight(url)) <= 1
        /\ fetch_ok[url] <= 1

\* C1, its case: the run is over, two workers ran, and a URL that was put at least
\* three times (a seed that two pages link to) was fetched with success once.
C1_Witness ==
    /\ main_pc = "done"
    /\ max_concurrent = 2
    /\ \E url \in discovered_urls : put_count[url] >= 3 /\ fetch_ok[url] = 1

\* C2: a URL whose every fetch attempt fails is passed to crawler.arun exactly
\* max_retries + 1 times before it is dropped.
C2_FailingUrlTriedMaxRetriesPlusOne ==
    \A url \in dropped : fetch_calls[url] = max_retries + 1

\* the path of url starts with the path of start once the trailing slashes of both
\* are left out
StartsWithModuloSlash(url, start) ==
    StartsWith(RStripPath(url.path), RStripPath(start.path))

\* C3: for a url and a start url of the same network location where the path of
\* the url starts with the path of the start url, should_crawl_url is true with
\* or without a trailing slash on either.
C3_ScopeIgnoresTrailingSlash ==
    (/\ sc_result # "pending"
     /\ sc_url.netloc = sc_start.netloc
     /\ StartsWithModuloSlash(sc_url, sc_start)) => sc_result = "True"


\* the <loc> entries of sitemap.xml, as a set
FileUrls == Range(sitemap_file.locs)

\* a set of URLs, each without its trailing slash
Normalized(urls) == {RStrip(u) : u \in urls}

\* MainApp.run has loaded the sitemap that discovery saved, and the fetch phase
\* has not saved it again
JustLoaded == discovery_complete_event /\ main_pc \in {"crawl_parallel", "exit"}

\* C4: save_sitemap followed by load_urls with the same start URL returns the set
\* that was saved, each URL without its trailing slash: nothing saved is lost.
C4_LoadReturnsSaved == JustLoaded => discovered_urls = Normalized(FileUrls)

\* C5: every member of the Sitemap set passes the scope filter against the start
\* URL of the run, during discovery and during the fetch phase.
C5_SitemapMembersInScope ==
    \A url \in sitemap_urls : should_crawl_url(url, start_url)

\* the links of a fetched page, of both extraction strategies
PageLinks(url) == Range(MdLinks(url)) \cup Range(HtmlLinks(url))

\* the pages reached from a set of pages over links that pass the scope filter
RECURSIVE ReachableInScope(_)
ReachableInScope(pages) ==
    LET more == {l \in Normalized(UNION {PageLinks(p) : p \in pages}) :
                    should_crawl_url(l, start_url)}
    IN  IF more \subseteq pages THEN pages ELSE ReachableInScope(pages \cup more)

\* the seed and the in-scope pages reachable from it
SeedAndReachable == ReachableInScope({RStrip(start_url)})

FetchPhaseBegun ==
    \/ Workers # {}
    \/ crawler # "none"
    \/ \E url \in Universe : fetch_calls[url] > 0

\* C7: the fetch phase does not begin before the discovery spider has emptied its
\* frontier, saved the Sitemap and set discovery_complete_event; the event is set
\* only with the Sitemap saved.
C7_FetchAfterDiscovery ==
    /\ FetchPhaseBegun =>
          scheduled = {} /\ sitemap_file.exists /\ discovery_complete_event
    /\ discovery_complete_event =>
          scheduled = {} /\ save_count >= 1 /\ sitemap_file.exists
    /\ (discovery_complete_event /\ main_pc = "discovering") =>
          sitemap_file = save_sitemap(sitemap_urls)

\* C7, its case: the workers exist and one of them has a crawler.arun call in
\* flight, after a discovery that found three pages.
C7_Witness ==
    /\ \E w \in Workers : pc[w] = "arun"
    /\ Cardinality(spider_urls) >= 3
    /\ discovery_complete_event

\* the steps of the end of crawl_parallel are taken in their order: the crawler is
\* closed only with the Sitemap saved a second time, that save is made only with
\* the workers cancelled, and they are cancelled only with the queue joined
EndInOrder ==
    /\ crawler = "closed" => save_count = 2
    /\ save_count = 2 => (Workers # {} /\ \A w \in Workers : pc[w] = "cancelled")
    /\ (\E w \in Workers : pc[w] = "cancelled") =>
          unfinished_tasks = 0 /\ urls_to_process = << >>

\* C8: when every call returns, crawl_parallel terminates: once it waits for the
\* queue join, the join returns, the workers are cancelled, the Sitemap is saved
\* and the crawler is closed, in that order.
C8_CrawlParallelTerminates ==
    /\ (main_pc = "join") ~> (main_pc = "done" /\ crawler = "closed")
    /\ []EndInOrder

\* C8, its case: crawl_parallel is over after a run with retries, failed fetches
\* and links put onto the queue by fetched pages.
C8_Witness ==
    /\ main_pc = "done"
    /\ crawler = "closed"
    /\ max_retries >= 1
    /\ dropped # {}
    /\ processed_urls # {}
    /\ SumOver(put_count, Universe) > Cardinality(discovered_urls)

\* the workers that hold an item taken off the queue and not yet marked done
Busy == {w \in Workers : pc[w] \in {"acquire", "arun", "sleep", "process_document"}}

\* C9: when crawl_parallel cancels its workers the queue is empty and no worker
\* is in a fetch, a retry delay, an enrichment or a link loop; every item put was
\* taken and marked done once: the items not yet marked done are always the ones
\* on the queue and the ones a worker holds, so a page's links are on the queue
\* before its item is marked done.
C9_CancelAfterDrain ==
    /\ unfinished_tasks = Len(urls_to_process) + Cardinality(Busy)
    /\ main_pc = "cancel" =>
          /\ urls_to_process = << >>
          /\ Busy = {}
          /\ unfinished_tasks = 0
          /\ \A w \in Workers : held[w] = 0

\* C9, its case: the workers are about to be cancelled after pages were fetched,
\* links were put onto the queue and a URL was dropped.
C9_Witness ==
    /\ main_pc = "cancel"
    /\ max_concurrent = 2
    /\ SumOver(put_count, Universe) > Cardinality(discovered_urls)
    /\ dropped # {}

\* the crawler.arun calls in flight
FetchesInFlight == {w \in Workers : pc[w] = "arun"}

\* the permits the process_url frames hold
PermitsHeld == SumOver(held, Workers)

\* C10: the crawler.arun calls in flight are at most max_concurrent, and so are
\* the permits held; the permits held and the permits free add up to
\* max_concurrent.
C10_FetchesBounded ==
    /\ Cardinality(FetchesInFlight) <= max_concurrent
    /\ PermitsHeld <= max_concurrent
    /\ PermitsHeld + semaphore = max_concurrent

\* C10, its case: every permit is held and max_concurrent = 2 calls are in flight.
C10_Witness ==
    /\ max_concurrent = 2
    /\ Cardinality(FetchesInFlight) = 2
    /\ semaphore = 0

\* C11 as stated: a URL whose fetch attempts all failed is not in the Sitemap that
\* crawl_parallel saves at the end of the run, a loaded seed included.
C11_DroppedNotInSavedSitemap ==
    main_pc \in {"close", "done"} => \A url \in dropped : url \notin FileUrls

\* C11, amended: the fetch phase does not add a URL whose fetch attempts all failed
\* to the Sitemap; such a URL is in the Sitemap, and in the file saved at the end of
\* the run, only when the discovery spider had added it; what the Sitemap holds
\* was added by the spider or was fetched with success.
C11_DroppedNotAddedByFetchPhase ==
    /\ \A url \in dropped :
          /\ url \notin processed_urls
          /\ (url \in sitemap_urls \/ url \in FileUrls) => url \in spider_urls
    /\ sitemap_urls \subseteq (spider_urls \cup processed_urls)

\* C11, its case: the run is over; a loaded seed whose fetch attempts failed is
\* in the saved Sitemap, and a link whose fetch attempts failed is not.
C11_Witness ==
    /\ main_pc = "done"
    /\ \E url \in dropped : url \in discovered_urls /\ url \in FileUrls
    /\ \E url \in dropped : url \notin discovered_urls /\ url \notin FileUrls

\* the url at the head of urls_to_process is taken off the queue in this step
TakenOffQueue(url) ==
    /\ urls_to_process # << >>
    /\ Head(urls_to_process) = url
    /\ urls_to_process' = Tail(urls_to_process)

\* C12: a URL dropped after its fetch attempts failed is not blacklisted: when the
\* link loops of a page fetched later find a link to it, the URL is put onto
\* urls_to_process again, and when a worker takes it off the queue again,
\* process_url goes on to fetch it.
C12_DroppedUrlIsFetchedAgain ==
    [][\A url \in dropped :
          should_crawl_url(url, start_url) =>
             /\ (\E page \in link_loops_run' \ link_loops_run : url \in PageLinks(page)) =>
                    put_count'[url] > put_count[url]
             /\ TakenOffQueue(url) =>
                    \E w \in Workers : pc'[w] = "acquire" /\ cur_url'[w] = url]_vars

\* C13: the progress counter never decreases and counts each URL with a final
\* outcome once: it is the number of URLs fetched with success plus the number of
\* URLs dropped for good; a URL still to be retried is not counted.
C13_ProgressCountsFinalOutcomes ==
    /\ [](progress_n = Cardinality(processed_urls) + Cardinality(dropped))
    /\ [][progress_n' >= progress_n]_vars

\* nothing of discovery or of the fetch phase has happened: no request of the
\* spider, no sitemap entry or file, no worker (chunks are enriched and persisted
\* by a worker only, in its await of process_and_store_document), no crawler.arun
NothingBegun ==
    /\ scheduled = {}
    /\ spider_urls = {}
    /\ sitemap_urls = {}
    /\ ~sitemap_file.exists
    /\ save_count = 0
    /\ ~FetchPhaseBegun
    /\ \A url \in Universe : put_count[url] = 0

\* C18: once validate_config has failed the run is over: at no later time is
\* there a discovery request, a Sitemap write, a crawler.arun call or a worker
\* that could persist a chunk.
C18_FailedHealthCheckAborts ==
    config_error => (main_pc = "exit" /\ NothingBegun)

\* C18, its case: validate_config has raised and the run has exited.
C18_Witness ==
    /\ config_error
    /\ main_pc = "exit"

\* two URLs that differ only by one trailing slash
SlashTwins(u, v) == u # v /\ RStrip(u) = RStrip(v)

\* C20: of two URLs that differ only by one trailing slash, crawl_parallel
\* fetches at most one: once one of them is in queued_urls or processed_urls, no
\* crawler.arun call is made for the other.
C20_SlashTwinsFetchedOnce ==
    \A u, v \in Universe :
        SlashTwins(u, v) => ~(fetch_calls[u] > 0 /\ fetch_calls[v] > 0)

\* the concatenation of the chunks of a sequence
RECURSIVE Concat(_)
Concat(chunks) ==
    IF chunks = << >> THEN << >> ELSE Head(chunks) \o Concat(Tail(chunks))

IsWhitespace(c) == c \in Whitespace

IsNoWhitespace(c) == c \notin Whitespace

\* a text of letters only: no whitespace and no punctuation
LettersOnly(text) == \A i \in 1..Len(text) : text[i] \in Letters

\* what chunk_text returns for letters only: the chunks are the text, cut up
CoversText ==
    /\ ck_text = << >> => ck_chunks = << >>
    /\ (ck_text # << >> /\ LettersOnly(ck_text)) =>
          /\ Len(ck_chunks) >= 1
          /\ Concat(ck_chunks) = ck_text

\* C14: chunk_text(text, n) returns for every text and every n >= 1, its scan
\* offset start growing in every iteration of its loop and never passing the end
\* of the text; it returns no chunk for the empty string, and for a non-empty text
\* of letters only it returns at least one chunk and the chunks, put together,
\* are the text.
C14_ChunkTextTerminates ==
    /\ <>(ck_pc = "returned")
    /\ [][ck_pc' = "loop" => ck_start' > ck_start]_vars
    /\ [](ck_start <= Len(ck_text))
    /\ [](ck_pc = "returned" => CoversText)

\* C14, its case: chunk_text has returned two chunks for a text of three letters
\* cut with chunk_size 2.
C14_Witness ==
    /\ ck_pc = "returned"
    /\ LettersOnly(ck_text)
    /\ ck_size = 2
    /\ Len(ck_text) = 3
    /\ Len(ck_chunks) = 2

\* chunk is slice without the whitespace at its two edges
IsTrimOf(chunk, slice) ==
    \E lead \in 0..Len(slice) :
        /\ lead + Len(chunk) <= Len(slice)
        /\ SubSeq(slice, lead + 1, lead + Len(chunk)) = chunk
        /\ \A k \in 1..Len(slice) :
              (k <= lead \/ k > lead + Len(chunk)) => IsWhitespace(slice[k])
        /\ chunk # << >> => IsNoWhitespace(Head(chunk)) /\ IsNoWhitespace(chunk[Len(chunk)])

\* the slices taken so far follow one another from the start of the text, none
\* of them empty, and the scan offset is the end of the last one
CutsConsecutive ==
    /\ \A i \in 1..Len(ck_cuts) :
          /\ ck_cuts[i].from = (IF i = 1 THEN 0 ELSE ck_cuts[i - 1].to)
          /\ ck_cuts[i].from < ck_cuts[i].to
          /\ ck_cuts[i].to <= Len(ck_text)
    /\ ck_start = (IF ck_cuts = << >> THEN 0 ELSE ck_cuts[Len(ck_cuts)].to)

\* the chunks of the slices taken so far, the empty ones left out
RECURSIVE ChunksOfCuts(_)
ChunksOfCuts(cuts) ==
    IF cuts = << >> THEN << >>
    ELSE (IF Head(cuts).chunk # << >> THEN <<Head(cuts).chunk>> ELSE << >>)
            \o ChunksOfCuts(Tail(cuts))

\* C15: for every text and every n >= 1 the chunks of chunk_text are consecutive
\* slices of the text in its order, none overlapping another, each without the
\* whitespace at its edges; when chunk_text returns the slices reach the end of
\* the text and the chunks put together are the text but for whitespace: no other
\* character is lost, doubled or moved.
C15_ChunksAreConsecutiveSlices ==
    /\ CutsConsecutive
    /\ \A i \in 1..Len(ck_cuts) :
          IsTrimOf(ck_cuts[i].chunk, Slice(ck_text, ck_cuts[i].from, ck_cuts[i].to))
    /\ ck_chunks = ChunksOfCuts(ck_cuts)
    /\ ck_pc = "returned" =>
          /\ ck_start = Len(ck_text)
          /\ SelectSeq(Concat(ck_chunks), IsNoWhitespace)
                = SelectSeq(ck_text, IsNoWhitespace)

\* C15, its case: chunk_text has returned two chunks or more; a break rule cut a
\* slice short of its window, and whitespace was trimmed off a chunk.
C15_Witness ==
    /\ ck_pc = "returned"
    /\ Len(ck_chunks) >= 2
    /\ \E i \in 1..Len(ck_cuts) :
          ck_cuts[i].to < WindowEnd(ck_cuts[i].from, ck_size, Len(ck_text))
    /\ \E i \in 1..Len(ck_cuts) :
          /\ ck_cuts[i].chunk # << >>
          /\ Len(ck_cuts[i].chunk) < ck_cuts[i].to - ck_cuts[i].from

\* the tasks whose chunk was handed to save_chunk_to_file
SaveAttempted == Range(en_save_attempts)

\* the summarize outcomes that are a response without a usable title and summary
Malformed == {"object_without_keys", "json_not_object"}

\* the summarize outcomes that are a failed request or a response that is no JSON
SummarizeFailed == {"transport_error", "not_json"}

\* C16: whatever the summarize and embed requests of a chunk come to (success,
\* transport error, malformed response), no process_chunk task raises and
\* process_and_store_document does not raise into process_url, and a save is
\* attempted for every chunk of the document in the end.
C16_EnrichmentNeverRaises ==
    /\ [](\A i \in Tasks : en_pc[i] # "raised")
    /\ [](en_doc_pc \notin {"raised", "except"})
    /\ <>(\A i \in Tasks : i \in SaveAttempted)

\* process_and_store_document has returned to process_url
DocumentReturned == en_doc_pc \in {"returned", "links_extracted", "worker_next"}

\* C17: a chunk whose embed requests all failed gets the zero vector of 768
\* entries, and a chunk whose summarize request failed gets the title "Error
\* processing title" and the summary "Error processing summary"; neither failure
\* makes a task or process_and_store_document raise (only a summarize response
\* without title and summary does), and when process_and_store_document returns
\* every chunk was handed to save_chunk_to_file, the files written holding these
\* records.
C17_FailedRequestsGiveDefaults ==
    /\ \A i \in Tasks :
          /\ (en_failures[i] = 3 /\ en_pc[i] \in {"done", "raised"}) =>
                en_embedding[i] = [dim |-> 768, zero |-> TRUE]
          /\ (en_summary[i] \in SummarizeFailed /\ en_pc[i] = "done") =>
                /\ RecordOf(i).title = "Error processing title"
                /\ RecordOf(i).summary = "Error processing summary"
          /\ en_pc[i] = "raised" => en_summary[i] \in Malformed
          /\ en_failures[i] <= 3
    /\ en_doc_pc \in {"raised", "except"} => \E i \in Tasks : en_summary[i] \in Malformed
    /\ DocumentReturned => \A i \in Tasks : en_pc[i] = "done" /\ i \in SaveAttempted
    /\ \A r \in en_files :
          /\ r.chunk_number + 1 \in SaveAttempted
          /\ r = RecordOf(r.chunk_number + 1)

\* C17, its case: process_and_store_document has returned for a page of two
\* chunks; every embed request of the page failed and both summarize requests
\* failed, and both records were written, with zero vector and sentinel pair.
C17_Witness ==
    /\ DocumentReturned
    /\ en_chunks = 2
    /\ \A i \in Tasks :
          /\ en_failures[i] = 3
          /\ en_summary[i] = "transport_error"
          /\ [chunk_number |-> i - 1, title |-> "Error processing title",
              summary |-> "Error processing summary",
              embedding |-> [dim |-> 768, zero |-> TRUE]] \in en_files

\* the tasks whose chunk save_chunk_to_file could not write
FailedWrites == {i \in SaveAttempted : RecordOf(i) \notin en_files}

\* the save loop takes the chunks in their order
SavedInOrder == \A n \in 1..Len(en_save_attempts) : en_save_attempts[n] = n

\* C19: a failed write of a chunk does not raise into process_url; the save loop
\* goes on to every later chunk of the document, process_and_store_document
\* returns, process_url runs its link loops and the worker goes on to its next
\* URL.
C19_FailedWriteDoesNotAbort ==
    /\ (FailedWrites # {}) ~>
          (en_doc_pc = "worker_next" /\ \A i \in Tasks : i \in SaveAttempted)
    /\ [](en_doc_pc \notin {"raised", "except"})
    /\ [](SavedInOrder /\ (DocumentReturned => Len(en_save_attempts) = en_chunks))
    /\ [][en_doc_pc' = "worker_next" => en_doc_pc = "links_extracted"]_vars

\* C19, its case: the write of the first chunk of a page of two chunks failed, the
\* second chunk was written, and the worker has gone on to its next URL.
C19_Witness ==
    /\ en_doc_pc = "worker_next"
    /\ en_chunks = 2
    /\ FailedWrites = {1}
    /\ RecordOf(2) \in en_files

\* the work item of a url is complete: no worker holds it
ItemComplete(url) == \A w \in Workers : cur_url[w] # url

\* C21: for every page fetched with success, once its work item is complete its
\* link loops have run, whatever process_and_store_document came to, and every
\* link of the page that passes the scope filter was put onto urls_to_process
\* unless it had been seen.
C21_LinksEnqueuedBeforeItemCompletes ==
    \A url \in processed_urls :
        /\ ItemComplete(url) => url \in link_loops_run
        /\ url \in link_loops_run =>
              \A link_url \in PageLinks(url) :
                  should_crawl_url(link_url, start_url) =>
                     \/ put_count[link_url] > 0
                     \/ link_url \in queued_urls
                     \/ link_url \in processed_urls

\* the process_chunk task has left get_embedding
EmbedOver(i) == en_pc[i] \in {"done", "raised"}

\* C22: a task makes at most 3 embed requests; the sleep after its k-th failed
\* request (k = 0, 1) is of 2^k time units, that is 1 and then 2, and no sleep
\* follows the third failure; a request that does not fail ends get_embedding
\* with what it returned, no request following it.
C22_EmbedBackoff ==
    \A i \in Tasks :
        /\ en_embed_calls[i] <= 3
        /\ en_waits[i] = SubSeq(<<1, 2>>, 1, Min(en_failures[i], 2))
        /\ en_pc[i] = "summarize" => en_embed_calls[i] = 0
        /\ en_pc[i] = "embed" => en_embed_calls[i] = en_failures[i] + 1
        /\ en_pc[i] = "backoff" =>
              en_embed_calls[i] = en_failures[i] /\ en_failures[i] \in {1, 2}
        /\ (EmbedOver(i) /\ en_failures[i] < 3) =>
              /\ en_embed_calls[i] = en_failures[i] + 1
              /\ en_embedding[i] \in {ModelVector, EmbedDefault}
        /\ (EmbedOver(i) /\ en_failures[i] >= 3) =>
              en_embed_calls[i] = 3 /\ en_failures[i] = 3

\* C22, its case: of the two tasks of a page one has left get_embedding after
\* three failed requests and the sleeps 1 and 2, the other with the vector of its
\* second request, after one sleep.
C22_Witness ==
    /\ en_chunks = 2
    /\ EmbedOver(1) /\ en_failures[1] = 3 /\ en_waits[1] = <<1, 2>>
    /\ EmbedOver(2) /\ en_failures[2] = 1 /\ en_waits[2] = <<1>>
    /\ en_embedding[2] = ModelVector /\ en_embed_calls[2] = 2

\* the summarize request of task i completes in this step
SummarizeCompletes(i) == en_pc[i] = "summarize" /\ en_pc'[i] # "summarize"

\* C23: the embed request of a chunk does not wait for its summarize request:
\* when the summarize request completes, the embed request of the same chunk has
\* been issued before.
C23_EmbedIssuedWithoutWaiting ==
    [][\A i \in Tasks : SummarizeCompletes(i) => en_embed_calls[i] >= 1]_vars

\* the offsets at which sub occurs in chunk
Occurrences(chunk, sub) ==
    {i \in 0..(Len(chunk) - Len(sub)) : SubSeq(chunk, i + 1, i + Len(sub)) = sub}

\* the window of a cut: the chunk size from its start, or what is left of the text
CutWindow(cut) == Slice(ck_text, cut.from, Min(cut.from + ck_size, Len(ck_text)))

\* the break candidates of a kind in the window of a cut: the occurrences at an
\* offset greater than 30% of the chunk size
Candidates(cut, sub) ==
    {i \in Occurrences(CutWindow(cut), sub) : 10 * i > 3 * ck_size}

\* none of a kind in the window lies beyond the candidate taken
LastOf(offsets, cut, sub) ==
    CHOOSE i \in offsets : \A j \in Occurrences(CutWindow(cut), sub) : j <= i

\* where the claim has the slice of a cut end
PreferredEnd(cut) ==
    LET fences == Candidates(cut, <<Backquote, Backquote, Backquote>>)
        paragraphs == Candidates(cut, <<"\n", "\n">>)
        sentences == Candidates(cut, <<".", " ">>)
    IN  IF fences # {}
        THEN cut.from + LastOf(fences, cut, <<Backquote, Backquote, Backquote>>)
        ELSE IF paragraphs # {}
        THEN cut.from + LastOf(paragraphs, cut, <<"\n", "\n">>)
        ELSE IF sentences # {}
        THEN cut.from + LastOf(sentences, cut, <<".", " ">>) + 1
        ELSE cut.from + Len(CutWindow(cut))

\* C24: in every window of chunk_text a break is taken only at an offset greater
\* than 30% of the chunk size; the last code fence is preferred to the last
\* blank-line paragraph break and that to the last period-space, after whose
\* period the slice ends; without a candidate the slice is the window. Every
\* chunk returned is non-empty, without whitespace at its edges and no longer
\* than the chunk size.
C24_BreakPreference ==
    /\ \A i \in 1..Len(ck_cuts) : ck_cuts[i].to = PreferredEnd(ck_cuts[i])
    /\ \A i \in 1..Len(ck_chunks) :
          /\ ck_chunks[i] # << >>
          /\ IsNoWhitespace(Head(ck_chunks[i]))
          /\ IsNoWhitespace(ck_chunks[i][Len(ck_chunks[i])])
          /\ Len(ck_chunks[i]) <= ck_size

\* C24, its case: chunk_text has returned; one window held a code fence and a
\* paragraph break that were both candidates, one held a separator too near its
\* start to be one, and one slice was dropped for being whitespace only.
C24_Witness ==
    /\ ck_pc = "returned"
    /\ ck_chunks # << >>
    /\ \E i \in 1..Len(ck_cuts) :
          /\ Candidates(ck_cuts[i], <<Backquote, Backquote, Backquote>>) # {}
          /\ Candidates(ck_cuts[i], <<"\n", "\n">>) # {}
    /\ \E i \in 1..Len(ck_cuts) :
          /\ Occurrences(CutWindow(ck_cuts[i]), <<"\n", "\n">>) # {}
          /\ Candidates(ck_cuts[i], <<"\n", "\n">>) = {}
    /\ \E i \in 1..Len(ck_cuts) : ck_cuts[i].chunk = << >>

\* C25: a chunk file is written once and not overwritten: two chunks of different
\* (url, chunk_number) are written under different file names, and the file of
\* every chunk written holds that chunk.
C25_ChunkFilesNeverOverwritten ==
    /\ \A c, d \in st_written :
          c # d =>
             ChunkFileName(c.url, c.chunk_number) # ChunkFileName(d.url, d.chunk_number)
    /\ \A c \in st_written :
          [filename |-> ChunkFileName(c.url, c.chunk_number), content |-> c] \in st_files

\* C27: no load of the configuration at startup changes config.json.
C27_LoadNeverRewritesFile == [][cf_file' = cf_file]_vars

\* the pages the spider reaches from a set of pages over links that pass the
\* scope filter, each page named by its URL without trailing slash
RECURSIVE SpiderReachable(_)
SpiderReachable(pages) ==
    LET more == {l \in Normalized(UNION {SpiderLinks(p) : p \in pages}) :
                    should_crawl_url(l, start_url)}
    IN  IF more \subseteq pages THEN pages ELSE SpiderReachable(pages \cup more)

\* the discovery spider has set its event and none of its requests failed
DiscoveryCompleteAllOk == discovery_complete_event /\ all_ok

\* the requests of this step of the spider
NewRequests == scheduled' \ scheduled

\* C26: when discovery has signalled completion and no request failed, the saved
\* Sitemap holds the seed and every page reachable from it over in-scope pages;
\* parse extracted the links of no URL more than once; and every request the
\* spider issued is for a URL that passes the scope filter.
C26_DiscoveryCompleteAndScoped ==
    /\ [](DiscoveryCompleteAllOk =>
             SpiderReachable({RStrip(start_url)}) \subseteq FileUrls)
    /\ [](\A url \in Universe : extract_count[url] <= 1)
    /\ [][\A url \in NewRequests : should_crawl_url(url, start_url)]_vars

\* C26, its case: discovery from a start URL with a trailing slash is complete
\* without a failed request; the links of the seed and of a page behind it were
\* extracted once, and the pages out of scope are not in the saved Sitemap.
C26_Witness ==
    /\ DiscoveryCompleteAllOk
    /\ main_pc = "discovering"
    /\ start_url = DocsSlash
    /\ extract_count[Docs] = 1
    /\ extract_count[PageB] = 1
    /\ {Docs, PageA, PageB} \subseteq FileUrls
    /\ OutPage \notin FileUrls
    /\ PageH \notin FileUrls

\* worker w holds a permit of the semaphore and waits to acquire another
WaitsHolding(w) == held[w] > 0 /\ pc[w] = "acquire"

\* every permit is held, and every task that holds one waits to acquire another
PermitDeadlock ==
    /\ Workers # {}
    /\ semaphore = 0
    /\ \A w \in Workers : held[w] > 0 => WaitsHolding(w)

\* C28: for every max_concurrent >= 1 and max_retries >= 0 the fetch phase never
\* reaches a state in which all permits are held by tasks that each wait to
\* acquire another one; a retry started inside "async with self.semaphore" does
\* not wait for a permit, so no task waits for a permit while it holds one.
C28_NoPermitDeadlock ==
    /\ ~PermitDeadlock
    /\ \A w \in Workers : ~WaitsHolding(w)

\* C28, its case: both permits are held, one by a task that is in the sleep
\* before its retry, inside the section that holds the permit.
C28_Witness ==
    /\ max_concurrent = 2
    /\ max_retries = 1
    /\ semaphore = 0
    /\ \E w, v \in Workers :
          /\ pc[w] = "sleep" /\ held[w] = 1
          /\ pc[v] = "arun" /\ held[v] = 1

\* C29: in every state of the fetch phase processed_urls is a subset of
\* queued_urls, a URL is in processed_urls only if a call of crawler.arun for it
\* returned success, and the progress counter is the size of processed_urls.
C29_ProcessedAreQueuedAndCounted ==
    /\ processed_urls \subseteq queued_urls
    /\ \A url \in processed_urls : fetch_ok[url] = 1
    /\ progress_n = Cardinality(processed_urls)

\* C29, its case: in the fetch phase two URLs are processed and counted, and a
\* third was queued, fetched without success and left.
C29_Witness ==
    /\ main_pc = "join"
    /\ Cardinality(processed_urls) = 2
    /\ progress_n = 2
    /\ \E url \in queued_urls \ processed_urls :
          fetch_calls[url] >= 1 /\ url \in dropped

=============================================================================
